---- MODULE Spec2Model ----
(***************************************************************************)
(* A model of src/app/Server.py, the subscription proxy that rewrites      *)
(* every vless link of a base subscription once per allowed SNI.           *)
(*                                                                         *)
(* Python str values are TLA+ strings, handled character by character      *)
(* (Len, SubSeq and \o act on strings in TLC).  Python dicts are functions *)
(* from keys to values; a Python list is a sequence.  The alphabet of the  *)
(* model is ASCII without the backtick.                                    *)
(***************************************************************************)
EXTENDS Integers, Sequences, FiniteSets, TLC

VARIABLES
    pc,             \* position of the request handler
    endpoint,       \* "sub" (/sub/{id}) or "subf" (/subf/{id})
    db_row,         \* what the x-ui database holds for the subscription id
    github,         \* what the GitHub whitelist request answers
    upstream,       \* what the base subscription request answers
    sni_list,       \* handler local sni_list
    base_configs,   \* handler local base_configs
    multi_configs,  \* generate_multi_configs local multi_configs
    bi,             \* generate_multi_configs: index of base_config in base_configs
    si,             \* generate_multi_configs: index of sni in sni_list
    exc,            \* the exception the handler caught, "" when none
    response,       \* the body the handler returned
    cpc,            \* codec run: position
    url,            \* codec run: the link text given to parse_vless_url
    config,         \* codec run: parse_vless_url(url)
    url2,           \* codec run: json_to_vless_url(config)
    config2,        \* codec run: parse_vless_url(url2)
    epc,            \* envelope run: position
    lines,          \* envelope run: the list of link strings
    envelope,       \* envelope run: the base64 text made from lines
    decoded         \* envelope run: the lines read back from envelope

vars == <<pc, endpoint, db_row, github, upstream, sni_list, base_configs,
          multi_configs, bi, si, exc, response, cpc, url, config, url2,
          config2, epc, lines, envelope, decoded>>

handlerVars == <<pc, endpoint, db_row, github, upstream, sni_list,
                 base_configs, multi_configs, bi, si, exc, response>>
codecVars == <<cpc, url, config, url2, config2>>
envelopeVars == <<epc, lines, envelope, decoded>>

----------------------------------------------------------------------------
(* Python str operations *)

Char(s, i) == SubSeq(s, i, i)

From(s, i) == SubSeq(s, i, Len(s))

\* str.startswith
StartsWith(s, p) == Len(s) >= Len(p) /\ SubSeq(s, 1, Len(p)) = p

\* the positions of character c in s
Positions(s, c) == {i \in 1..Len(s) : Char(s, i) = c}

\* index of the first c in s, 0 when there is none (c in s, s.split(c, 1))
Find(s, c) ==
    LET at == Positions(s, c)
    IN  IF at = {} THEN 0 ELSE CHOOSE i \in at : \A j \in at : i <= j

\* index of the last c in s, 0 when there is none (s.rsplit(c, 1))
RFind(s, c) ==
    LET at == Positions(s, c)
    IN  IF at = {} THEN 0 ELSE CHOOSE i \in at : \A j \in at : i >= j

\* ''.join(parts), by halves
RECURSIVE Concat(_)
Concat(parts) ==
    IF Len(parts) = 0 THEN ""
    ELSE IF Len(parts) = 1 THEN parts[1]
    ELSE Concat(SubSeq(parts, 1, Len(parts) \div 2))
         \o Concat(SubSeq(parts, Len(parts) \div 2 + 1, Len(parts)))

\* str.split(c): every piece, empty ones included
RECURSIVE Split(_, _)
Split(s, c) ==
    LET i == Find(s, c)
    IN  IF i = 0 THEN <<s>>
        ELSE <<SubSeq(s, 1, i - 1)>> \o Split(From(s, i + 1), c)

\* sep.join(parts)
RECURSIVE Join(_, _)
Join(parts, sep) ==
    IF parts = <<>> THEN ""
    ELSE IF Len(parts) = 1 THEN parts[1]
    ELSE parts[1] \o sep \o Join(Tail(parts), sep)

\* the ASCII characters str.strip() removes
Whitespace == {" ", "\t", "\n", "\r", "\f"}

RECURSIVE LStrip(_)
LStrip(s) ==
    IF s # "" /\ Char(s, 1) \in Whitespace THEN LStrip(From(s, 2)) ELSE s

RECURSIVE RStrip(_)
RStrip(s) ==
    IF s # "" /\ Char(s, Len(s)) \in Whitespace
    THEN RStrip(SubSeq(s, 1, Len(s) - 1))
    ELSE s

\* str.strip()
Strip(s) == LStrip(RStrip(s))

\* str.replace(a, b) for one-character a
Replace(s, a, b) ==
    Concat([i \in 1..Len(s) |-> IF Char(s, i) = a THEN b ELSE Char(s, i)])

----------------------------------------------------------------------------
(* Character codes (ord, chr) of the model's alphabet *)

Ascii32 == " !\"#$%&'()*+,-./0123456789:;<=>?@ABCDEFGHIJKLMNOPQRSTUVWXYZ[\\]^_"
Ascii97 == "abcdefghijklmnopqrstuvwxyz{|}~"

Codes == {9, 10, 12, 13} \cup (32..95) \cup (97..126)

\* what a byte outside the alphabet decodes to (Python: U+FFFD)
Replacement == "?"

Chr(n) ==
    CASE n = 9 -> "\t"
      [] n = 10 -> "\n"
      [] n = 12 -> "\f"
      [] n = 13 -> "\r"
      [] n \in 32..95 -> Char(Ascii32, n - 31)
      [] n \in 97..126 -> Char(Ascii97, n - 96)
      [] OTHER -> Replacement

OrdTable == [c \in {Chr(n) : n \in Codes} |-> CHOOSE n \in Codes : Chr(n) = c]

Ord(c) == OrdTable[c]

HexDigits == "0123456789ABCDEF"
HexLower == "0123456789abcdef"

IsHex(c) == Find(HexDigits, c) # 0 \/ Find(HexLower, c) # 0

HexVal(c) ==
    IF Find(HexDigits, c) # 0 THEN Find(HexDigits, c) - 1
    ELSE Find(HexLower, c) - 1

\* "%XX" for one byte
PercentHex(n) ==
    "%" \o Char(HexDigits, (n \div 16) + 1) \o Char(HexDigits, (n % 16) + 1)

----------------------------------------------------------------------------
(* urllib.parse: unquote, quote_plus, urlencode, parse_qs *)

\* whether a %XX escape starts at position i of s
EscapeAt(s, i) ==
    /\ i >= 1
    /\ i + 2 <= Len(s)
    /\ Char(s, i) = "%"
    /\ IsHex(Char(s, i + 1))
    /\ IsHex(Char(s, i + 2))

\* urllib.parse.unquote: every %XX with two hex digits becomes its character
\* (escapes cannot overlap: the two characters after a '%' are hex digits)
unquote(s) ==
    Concat([i \in 1..Len(s) |->
              IF EscapeAt(s, i)
              THEN Chr(16 * HexVal(Char(s, i + 1)) + HexVal(Char(s, i + 2)))
              ELSE IF EscapeAt(s, i - 1) \/ EscapeAt(s, i - 2) THEN ""
              ELSE Char(s, i)])

\* the characters quote never escapes
AlwaysSafe ==
    "ABCDEFGHIJKLMNOPQRSTUVWXYZabcdefghijklmnopqrstuvwxyz0123456789_.-~"

\* urllib.parse.quote_plus(s, safe=''), as urlencode calls it
quote_plus(s) ==
    Concat([i \in 1..Len(s) |->
              IF Find(AlwaysSafe, Char(s, i)) # 0 THEN Char(s, i)
              ELSE IF Char(s, i) = " " THEN "+"
              ELSE PercentHex(Ord(Char(s, i)))])

\* urllib.parse.urlencode(params, doseq=True) for str values;
\* params is the dict as its items in insertion order
urlencode(params) ==
    Join([i \in 1..Len(params) |->
            quote_plus(params[i][1]) \o "=" \o quote_plus(params[i][2])], "&")

\* one name=value piece of parse_qsl: <<>> when skipped, else <<name, value>>
QsPair(name_value) ==
    LET i == Find(name_value, "=")
    IN  IF name_value = "" \/ i = 0 \/ i = Len(name_value) THEN <<>>
        ELSE <<unquote(Replace(SubSeq(name_value, 1, i - 1), "+", " ")),
               unquote(Replace(From(name_value, i + 1), "+", " "))>>

\* the (name, value) pairs of the pieces, skipped pieces left out
RECURSIVE QsPairs(_)
QsPairs(pieces) ==
    IF pieces = <<>> THEN <<>>
    ELSE (IF QsPair(pieces[1]) = <<>> THEN <<>> ELSE <<QsPair(pieces[1])>>)
         \o QsPairs(Tail(pieces))

\* urllib.parse.parse_qs(qs), as the list of its (name, value) pairs in order
parse_qs(qs) == QsPairs(Split(qs, "&"))

\* 'k' in params
QsHas(params, k) == \E i \in 1..Len(params) : params[i][1] = k

\* params.get(k, [default])[0]
QsGet(params, k, default) ==
    IF QsHas(params, k)
    THEN params[CHOOSE i \in 1..Len(params) :
                    /\ params[i][1] = k
                    /\ \A j \in 1..(i - 1) : params[j][1] # k][2]
    ELSE default

----------------------------------------------------------------------------
(* Python values: None and dict; a dict's items are a function on its keys *)

None == [type |-> "NoneType"]

Dict(items) == [type |-> "dict", items |-> items]

\* d.get(k, default)
Get(d, k, default) == IF k \in DOMAIN d THEN d[k] ELSE default

\* d[k] = v
Put(d, k, v) == (k :> v) @@ d

----------------------------------------------------------------------------
(* parse_vless_url and json_to_vless_url *)

\* a classifier that tests for Reality before WebSocket
ConfigTypeRealityFirst(c) ==
    IF c["tls"] = "reality" /\ Get(c, "pbk", "") # "" THEN "reality"
    ELSE IF c["net"] = "ws" THEN "websocket"
    ELSE "other"

\* the profile of a config (lines 176-186): WebSocket first, then Reality
ConfigType(c) ==
    IF c["net"] = "ws" THEN "websocket"
    ELSE IF c["tls"] = "reality" /\ Get(c, "pbk", "") # "" THEN "reality"
    ELSE "other"

\* the config dict parse_vless_url builds from the pieces of the link
ParsedConfig(uuid_part, host, port, comment, params) ==
    LET fixed ==
            [v |-> "2",
             ps |-> IF comment # "" THEN comment ELSE "base-config",
             add |-> host,
             port |-> port,
             id |-> uuid_part,
             aid |-> "0",
             scy |-> "auto",
             net |-> QsGet(params, "type", "tcp"),
             type |-> "none",
             host |-> "",
             path |-> QsGet(params, "path", ""),
             tls |-> QsGet(params, "security", "tls"),
             sni |-> QsGet(params, "sni", ""),
             alpn |-> "",
             fp |-> QsGet(params, "fp", "chrome"),
             pbk |-> QsGet(params, "pbk", ""),
             sid |-> QsGet(params, "sid", ""),
             spx |-> QsGet(params, "spx", "")]
        c1 == IF QsHas(params, "flow")
              THEN Put(fixed, "flow", QsGet(params, "flow", "")) ELSE fixed
        c2 == IF QsHas(params, "encryption")
              THEN Put(c1, "encryption", QsGet(params, "encryption", ""))
              ELSE c1
        c3 == IF QsHas(params, "allowInsecure")
              THEN Put(c2, "allowInsecure", QsGet(params, "allowInsecure", ""))
              ELSE c2
        c4 == IF QsHas(params, "host")
              THEN Put(c3, "host", QsGet(params, "host", "")) ELSE c3
    IN  Put(c4, "_config_type", ConfigType(c4))

\* parse_vless_url(vless_url): Dict(config), or None when the link has no
\* '@' or its server part has no ':' (the ValueError is caught, line 195)
parse_vless_url(vless_url) ==
    LET url_content ==
            IF StartsWith(vless_url, "vless://") THEN From(vless_url, 9)
            ELSE vless_url
        at == Find(url_content, "@")
        uuid_part == SubSeq(url_content, 1, at - 1)
        server_part == From(url_content, at + 1)
        hash == Find(server_part, "#")
        params_part ==
            IF hash # 0 THEN SubSeq(server_part, 1, hash - 1) ELSE server_part
        comment ==
            IF hash # 0 THEN unquote(From(server_part, hash + 1)) ELSE ""
        q == Find(params_part, "?")
        server_info ==
            IF q # 0 THEN SubSeq(params_part, 1, q - 1) ELSE params_part
        query_part == IF q # 0 THEN From(params_part, q + 1) ELSE ""
        colon == RFind(server_info, ":")
        host == SubSeq(server_info, 1, colon - 1)
        port == From(server_info, colon + 1)
    IN  IF at = 0 THEN None
        ELSE IF colon = 0 THEN None
        ELSE Dict(ParsedConfig(uuid_part, host, port, comment,
                               parse_qs(query_part)))

\* the keys json_to_vless_url copies into the query when their value is truthy
optional_params ==
    <<"sni", "pbk", "sid", "flow", "path", "spx", "host", "allowInsecure">>

\* the (key, value) items of the optional parameters whose value is non-empty
RECURSIVE OptionalItems(_, _)
OptionalItems(c, keys) ==
    IF keys = <<>> THEN <<>>
    ELSE (IF Get(c, keys[1], "") # "" THEN <<<<keys[1], c[keys[1]]>>>>
          ELSE <<>>)
         \o OptionalItems(c, Tail(keys))

\* the params dict of json_to_vless_url (lines 217-229), in insertion order
UrlParams(c) ==
    <<<<"type", Get(c, "net", "tcp")>>,
      <<"encryption", Get(c, "encryption", "none")>>,
      <<"security", Get(c, "tls", "tls")>>>>
    \o (IF Get(c, "_config_type", "") = "reality"
        THEN <<<<"fp", Get(c, "fp", "chrome")>>>> ELSE <<>>)
    \o OptionalItems(c, optional_params)

\* json_to_vless_url(config) for a dict whose values are str
json_to_vless_url(c) ==
    LET vless_url ==
            "vless://" \o Get(c, "id", "") \o "@" \o Get(c, "add", "")
            \o ":" \o Get(c, "port", "") \o "?" \o urlencode(UrlParams(c))
        comment == Get(c, "ps", "")
    IN  IF comment # "" THEN vless_url \o "#" \o comment ELSE vless_url

----------------------------------------------------------------------------
(* base64 and UTF-8 *)

B64Alphabet ==
    "ABCDEFGHIJKLMNOPQRSTUVWXYZabcdefghijklmnopqrstuvwxyz0123456789+/"

B64Char(n) == Char(B64Alphabet, n + 1)

\* the 6-bit value of each character of the alphabet
B64Value ==
    [c \in {B64Char(n) : n \in 0..63} |->
        CHOOSE n \in 0..63 : B64Char(n) = c]

\* s.encode('utf-8') for a str of the model's alphabet
Utf8Encode(s) == [i \in 1..Len(s) |-> Ord(Char(s, i))]

\* the four characters for the g-th group of three bytes (the last group
\* may hold one or two bytes and is padded with '=')
B64Group(bytes, g) ==
    LET b1 == bytes[3 * g - 2]
        has2 == 3 * g - 1 <= Len(bytes)
        has3 == 3 * g <= Len(bytes)
        b2 == IF has2 THEN bytes[3 * g - 1] ELSE 0
        b3 == IF has3 THEN bytes[3 * g] ELSE 0
    IN  B64Char(b1 \div 4)
        \o B64Char((b1 % 4) * 16 + b2 \div 16)
        \o (IF has2 THEN B64Char((b2 % 16) * 4 + b3 \div 64) ELSE "=")
        \o (IF has3 THEN B64Char(b3 % 64) ELSE "=")

\* base64.b64encode(bytes).decode('utf-8')
b64encode(bytes) ==
    Concat([g \in 1..((Len(bytes) + 2) \div 3) |-> B64Group(bytes, g)])

\* the characters of s as a list
Chars(s) == [i \in 1..Len(s) |-> Char(s, i)]

\* binascii.a2b_base64 skips every character that is neither of the
\* alphabet nor '='; what is left of s
B64Relevant(s) ==
    SelectSeq(Chars(s), LAMBDA c : c = "=" \/ c \in DOMAIN B64Value)

\* binascii.a2b_base64: the position of the '=' that ends the input, 0 when
\* none does.  cs is the relevant characters, from is where the scan stands
\* and n the number of data characters before it.  A '=' ends the input when
\* it completes the pad sequence of the quad: at quad position 3, or at quad
\* position 2 right after another '='.
RECURSIVE PadStop(_, _, _)
PadStop(cs, from, n) ==
    LET pads == {i \in from..Len(cs) : cs[i] = "="}
        p == CHOOSE i \in pads : \A j \in pads : i <= j
        quad_pos == (n + p - from) % 4
    IN  IF pads = {} THEN 0
        ELSE IF quad_pos = 3 THEN p
        ELSE IF quad_pos = 2 /\ p < Len(cs) /\ cs[p + 1] = "=" THEN p + 1
        ELSE PadStop(cs, p + 1, n + p - from)

\* the k-th byte that the data characters d decode to
B64Byte(d, k) ==
    LET q == 4 * ((k - 1) \div 3)
        r == (k - 1) % 3
    IN  CASE r = 0 -> d[q + 1] * 4 + d[q + 2] \div 16
          [] r = 1 -> (d[q + 2] % 16) * 16 + d[q + 3] \div 4
          [] OTHER -> (d[q + 3] % 4) * 64 + d[q + 4]

\* base64.b64decode(s): [ok, bytes]; ok is FALSE for binascii.Error (the
\* data characters do not fill their last quad and no padding ends them)
b64decode(s) ==
    LET cs == B64Relevant(s)
        stop == PadStop(cs, 1, 0)
        used == IF stop = 0 THEN cs ELSE SubSeq(cs, 1, stop)
        data == SelectSeq(used, LAMBDA c : c # "=")
        d == [i \in 1..Len(data) |-> B64Value[data[i]]]
        rem == Len(d) % 4
        n == 3 * (Len(d) \div 4) + (IF rem >= 2 THEN rem - 1 ELSE 0)
    IN  [ok |-> stop # 0 \/ rem = 0,
         bytes |-> [k \in 1..n |-> B64Byte(d, k)]]

\* bytes.decode('utf-8'): [ok, text]; a byte above 127 is drawn only as
\* 0xFF, which no UTF-8 text holds (UnicodeDecodeError)
Utf8Decode(bytes) ==
    IF \E i \in 1..Len(bytes) : bytes[i] > 127 THEN [ok |-> FALSE, text |-> ""]
    ELSE [ok |-> TRUE,
          text |-> Concat([i \in 1..Len(bytes) |-> Chr(bytes[i])])]

----------------------------------------------------------------------------
(* The subscription envelope *)

\* [line.strip() for line in pieces if line.strip()]
RECURSIVE StripNonBlank(_)
StripNonBlank(pieces) ==
    IF pieces = <<>> THEN <<>>
    ELSE (IF Strip(pieces[1]) # "" THEN <<Strip(pieces[1])>> ELSE <<>>)
         \o StripNonBlank(Tail(pieces))

\* lines 260-268: the config lines of a subscription body, [ok, configs];
\* ok is FALSE when base64 or UTF-8 decoding raises
DecodeEnvelope(text) ==
    LET original_content == Strip(text)
        raw == b64decode(original_content)
        decoded_content == Utf8Decode(raw.bytes)
    IN  IF ~raw.ok \/ ~decoded_content.ok THEN [ok |-> FALSE, configs |-> <<>>]
        ELSE [ok |-> TRUE,
              configs |-> StripNonBlank(Split(decoded_content.text, "\n"))]

\* an encoder that joins the links with a space instead of a newline
EncodeEnvelopeSpaceJoined(links) == b64encode(Utf8Encode(Join(links, " ")))

\* lines 380-381: the body made of the generated links
EncodeEnvelope(links) == b64encode(Utf8Encode(Join(links, "\n")))

----------------------------------------------------------------------------
(* json.loads, for the JSON texts a subscription line can be here: a scalar *)
(* (integer, null, true, false, a string without escapes) or a flat object  *)
(* whose keys and values are strings without escapes.  Any other text is    *)
(* reported as a JSONDecodeError; the lines drawn below are of these shapes *)
(* or are no JSON at all.                                                   *)

JsonWhitespace == {" ", "\t", "\n", "\r"}

\* the least element of a non-empty set of integers
Min(S) == CHOOSE x \in S : \A y \in S : x <= y

\* the first position from i on that holds no whitespace, Len(s) + 1 if none
SkipWs(s, i) ==
    LET rest == {j \in i..Len(s) : Char(s, j) \notin JsonWhitespace}
    IN  IF rest = {} THEN Len(s) + 1 ELSE Min(rest)

\* a JSON string starting at position i: [ok, value, next]
JsonString(s, i) ==
    LET quotes == {j \in (i + 1)..Len(s) : Char(s, j) = "\""}
        close == Min(quotes)
        value == SubSeq(s, i + 1, close - 1)
    IN  IF i > Len(s) \/ Char(s, i) # "\"" \/ quotes = {}
        THEN [ok |-> FALSE, value |-> "", next |-> i]
        ELSE [ok |-> \A j \in 1..Len(value) :
                        Char(value, j) \notin {"\\", "\t", "\n", "\r", "\f"},
              value |-> value, next |-> close + 1]

\* the members of a JSON object from position i on: [ok, items, next]
RECURSIVE JsonMembers(_, _, _)
JsonMembers(s, i, items) ==
    LET key == JsonString(s, i)
        colon == SkipWs(s, key.next)
        val == JsonString(s, SkipWs(s, colon + 1))
        after == SkipWs(s, val.next)
        bad == [ok |-> FALSE, items |-> items, next |-> i]
    IN  IF ~key.ok THEN bad
        ELSE IF colon > Len(s) \/ Char(s, colon) # ":" THEN bad
        ELSE IF ~val.ok \/ after > Len(s) THEN bad
        ELSE IF Char(s, after) = "}"
             THEN [ok |-> TRUE, items |-> Put(items, key.value, val.value),
                   next |-> after + 1]
        ELSE IF Char(s, after) = ","
             THEN JsonMembers(s, SkipWs(s, after + 1),
                              Put(items, key.value, val.value))
        ELSE bad

Digits == {"0", "1", "2", "3", "4", "5", "6", "7", "8", "9"}

\* whether s is a JSON integer literal
IsJsonInt(s) ==
    LET body == IF StartsWith(s, "-") THEN From(s, 2) ELSE s
    IN  /\ body # ""
        /\ \A i \in 1..Len(body) : Char(body, i) \in Digits
        /\ Len(body) > 1 => Char(body, 1) # "0"

\* json.loads(text): [ok, value]; ok is FALSE for JSONDecodeError
JsonLoads(text) ==
    LET solid == {j \in 1..Len(text) : Char(text, j) \notin JsonWhitespace}
        s == IF solid = {} THEN ""
             ELSE SubSeq(text, Min(solid), Min(solid) + Cardinality(
                      {j \in Min(solid)..Len(text) :
                          \E k \in solid : k >= j}) - 1)
        string == JsonString(s, 1)
        first == SkipWs(s, 2)
        members == JsonMembers(s, first, <<>>)
        bad == [ok |-> FALSE, value |-> None]
    IN  IF s = "" THEN bad
        ELSE IF IsJsonInt(s) THEN [ok |-> TRUE, value |-> [type |-> "int"]]
        ELSE IF s = "null" THEN [ok |-> TRUE, value |-> None]
        ELSE IF s \in {"true", "false"}
             THEN [ok |-> TRUE, value |-> [type |-> "bool"]]
        ELSE IF Char(s, 1) = "\""
             THEN IF string.ok /\ string.next = Len(s) + 1
                  THEN [ok |-> TRUE, value |-> [type |-> "str"]]
                  ELSE bad
        ELSE IF Char(s, 1) = "{"
             THEN IF first <= Len(s) /\ Char(s, first) = "}"
                  THEN IF first = Len(s)
                       THEN [ok |-> TRUE, value |-> Dict(<<>>)] ELSE bad
                  ELSE IF members.ok /\ members.next = Len(s) + 1
                       THEN [ok |-> TRUE, value |-> Dict(members.items)]
                       ELSE bad
        ELSE bad

----------------------------------------------------------------------------
(* The answers of the collaborators: a request fails or answers a body *)

NoRequest == [status |-> "none"]

RequestFailed == [status |-> "failed"]

Body(text) == [status |-> "ok", text |-> text]

\* the inbounds row of the subscription id: none, or its stream_settings
NoRow == [found |-> FALSE]

Row(security, network, serverNames, serverName) ==
    [found |-> TRUE,
     stream_settings |-> [security |-> security, network |-> network,
                          serverNames |-> serverNames,
                          serverName |-> serverName]]

----------------------------------------------------------------------------
(* load_sni_from_github, load_sni_from_db, get_base_configs *)

\* lines 47-51: the lines of the whitelist that are neither blank nor comments
RECURSIVE WhitelistLines(_)
WhitelistLines(pieces) ==
    IF pieces = <<>> THEN <<>>
    ELSE (IF Strip(pieces[1]) # "" /\ ~StartsWith(Strip(pieces[1]), "#")
          THEN <<Strip(pieces[1])>> ELSE <<>>)
         \o WhitelistLines(Tail(pieces))

\* load_sni_from_github(): [ok, value]; ok is FALSE when it returns None
\* (the request failed, or the whitelist is empty: both are caught, line 59)
load_sni_from_github(answer) ==
    IF answer.status # "ok" THEN [ok |-> FALSE, value |-> <<>>]
    ELSE LET sni == WhitelistLines(Split(answer.text, "\n"))
         IN  [ok |-> sni # <<>>, value |-> sni]

\* load_sni_from_db(id_sub): [raised, error, value]; its exceptions are
\* raised again to the caller (line 115)
load_sni_from_db(row) ==
    LET ss == row.stream_settings
        Raise(msg) == [raised |-> TRUE, error |-> msg, value |-> <<>>]
        Return(v) == [raised |-> FALSE, error |-> "", value |-> v]
        names ==
            IF ss.security = "reality" THEN ss.serverNames
            ELSE IF ss.serverName # ""
                 THEN StripNonBlank(Split(ss.serverName, ","))
                 ELSE <<>>
    IN  IF ~row.found THEN Raise("No settings found in database")
        ELSE IF ss.security # "reality"
                /\ ~(ss.security = "tls" /\ ss.network = "ws")
             THEN Return(<<>>)
        ELSE IF names = <<>>
             THEN Raise("No SNI domains found in database for this configuration")
        ELSE Return(names)

\* lines 272-286: the configs of the lines, a line that parses to nothing
\* left out; whatever json.loads returns is taken as a config
RECURSIVE ParseConfigLines(_)
ParseConfigLines(configs) ==
    IF configs = <<>> THEN <<>>
    ELSE LET config_line == configs[1]
             parsed == parse_vless_url(config_line)
             json == JsonLoads(config_line)
             valid ==
                IF StartsWith(config_line, "vless://")
                THEN IF parsed # None THEN <<parsed>> ELSE <<>>
                ELSE IF json.ok THEN <<json.value>>
                ELSE IF parsed # None THEN <<parsed>> ELSE <<>>
         IN  valid \o ParseConfigLines(Tail(configs))

\* get_base_configs(sub_id): [] when the request fails or the body is not
\* base64 of UTF-8 text (lines 290-299)
get_base_configs(answer) ==
    IF answer.status # "ok" THEN <<>>
    ELSE LET content == DecodeEnvelope(answer.text)
         IN  IF ~content.ok THEN <<>> ELSE ParseConfigLines(content.configs)

----------------------------------------------------------------------------
(* generate_multi_configs *)

\* a copy that takes the sni and keeps the label of the base config
FanOutConfigKeepLabel(base_config, sni) == Put(base_config, "sni", sni)

\* lines 317-319 and 331-333: the copy of base_config made for one sni
FanOutConfig(base_config, sni) ==
    Put(Put(base_config, "sni", sni),
        "ps", Get(base_config, "ps", "base-config") \o " - sni:" \o sni)

\* line 309
ConfigTypeOf(base_config) == Get(base_config, "_config_type", "unknown")

----------------------------------------------------------------------------
(* The codec run: a link is parsed, written back and parsed again *)

\* the query strings the codec run draws: every combination of the pieces
CodecQueries ==
    { Join(SelectSeq(<<t, s, k, f, e>>, LAMBDA x : x # ""), "&") :
        t \in {"", "type=tcp", "type=ws", "type=grpc"},
        s \in {"", "security=tls", "security=reality"},
        k \in {"", "pbk=ABC"},
        f \in {"", "fp=firefox"},
        e \in {"", "encryption=none&flow=xtls-rprx-vision&path=%2Fws"} }

\* the labels the codec run draws
CodecLabels == {"", "#label1", "#My%20Server", "#50%2541"}

\* the links the codec run draws, two of them malformed
CodecUrls ==
    { "vless://u1@host1:443" \o (IF qs # "" THEN "?" \o qs ELSE "") \o l :
        qs \in CodecQueries, l \in CodecLabels }
    \cup {"vless://u1host1:443?type=tcp", "vless://u1@host1?type=tcp"}

IdleCodec ==
    /\ cpc = "idle" /\ url = "" /\ config = None /\ url2 = ""
    /\ config2 = None

IdleHandler ==
    /\ pc = "idle" /\ endpoint = "" /\ db_row = NoRow /\ github = NoRequest
    /\ upstream = NoRequest /\ sni_list = <<>> /\ base_configs = <<>>
    /\ multi_configs = <<>> /\ bi = 0 /\ si = 0 /\ exc = "" /\ response = ""

IdleEnvelope ==
    /\ epc = "idle" /\ lines = <<>> /\ envelope = "" /\ decoded = <<>>

InitCodec ==
    /\ cpc = "parse" /\ url \in CodecUrls /\ config = None /\ url2 = ""
    /\ config2 = None
    /\ IdleHandler /\ IdleEnvelope

\* config = parse_vless_url(url)
Decode ==
    /\ cpc = "parse"
    /\ config' = parse_vless_url(url)
    /\ cpc' = IF config' = None THEN "done" ELSE "encode"
    /\ UNCHANGED <<url, url2, config2>>
    /\ UNCHANGED <<handlerVars, envelopeVars>>

\* url2 = json_to_vless_url(config)
Encode ==
    /\ cpc = "encode"
    /\ url2' = json_to_vless_url(config.items)
    /\ cpc' = "reparse"
    /\ UNCHANGED <<url, config, config2>>
    /\ UNCHANGED <<handlerVars, envelopeVars>>

\* config2 = parse_vless_url(url2)
Reparse ==
    /\ cpc = "reparse"
    /\ config2' = parse_vless_url(url2)
    /\ cpc' = "done"
    /\ UNCHANGED <<url, config, url2>>
    /\ UNCHANGED <<handlerVars, envelopeVars>>

NextCodec == Decode \/ Encode \/ Reparse

SpecCodec == InitCodec /\ [][NextCodec]_vars

----------------------------------------------------------------------------
(* The envelope run: links are joined and encoded, then read back *)

\* the longest list of links the envelope run draws
MaxLinks == 2

\* the non-empty, newline-free strings the envelope run draws
EnvelopeStrings == {"vless://u@h:1?type=ws#x", "a", " a", "b ", " ", "a b"}

\* every sequence over S of length at most n
SeqsUpTo(S, n) == UNION {[1..k -> S] : k \in 0..n}

InitEnvelope ==
    /\ epc = "encode" /\ lines \in SeqsUpTo(EnvelopeStrings, MaxLinks)
    /\ envelope = "" /\ decoded = <<>>
    /\ IdleHandler /\ IdleCodec

\* envelope = EncodeEnvelope(lines)
EncodeStep ==
    /\ epc = "encode"
    /\ envelope' = EncodeEnvelope(lines)
    /\ epc' = "decode"
    /\ UNCHANGED <<lines, decoded>>
    /\ UNCHANGED <<handlerVars, codecVars>>

\* decoded = DecodeEnvelope(envelope)
DecodeStep ==
    /\ epc = "decode"
    /\ LET content == DecodeEnvelope(envelope)
       IN  /\ decoded' = content.configs
           /\ epc' = IF content.ok THEN "done" ELSE "failed"
    /\ UNCHANGED <<lines, envelope>>
    /\ UNCHANGED <<handlerVars, codecVars>>

NextEnvelope == EncodeStep \/ DecodeStep

SpecEnvelope == InitEnvelope /\ [][NextEnvelope]_vars

----------------------------------------------------------------------------
(* The request handlers multi_subscription (/sub/{id_sub}) and              *)
(* multi_subscription_all (/subf/{id_sub}), step by step                    *)

\* the most lines a base subscription holds here
MaxLines == 2

\* the most server names a Reality inbound holds here
MaxSni == 2

SniNames == {"s1.com", "s2.com"}

\* the lines a base subscription is made of here
SubscriptionLines ==
    {"vless://u1@host1:443?type=tcp&security=reality&pbk=ABC&sni=a.com&fp=chrome#label1",
     "vless://u2@host2:443?type=ws&security=tls&sni=orig.com#label%0A2",
     "vless://u3@host3:443?type=grpc&security=tls#label3",
     "u4host4:443?type=tcp",
     "vless://u6@host6?type=tcp",
     "{\"id\": \"u5\", \"add\": \"host5\", \"port\": \"443\", \"net\": \"ws\", \"tls\": \"tls\", \"ps\": \"label5\"}",
     "123"}

\* what the base subscription request can answer
UpstreamAnswers ==
    {RequestFailed, Body("abc"), Body("/w==")}
    \cup {Body(EncodeEnvelope(ls)) : ls \in SeqsUpTo(SubscriptionLines, MaxLines)}

\* what the database can hold for the subscription id
DbRows ==
    {NoRow, Row("tls", "tcp", <<>>, "")}
    \cup {Row("reality", "tcp", names, "") : names \in SeqsUpTo(SniNames, MaxSni)}
    \cup {Row("tls", "ws", <<>>, name) : name \in {"", "s2.com, s1.com,"}}

\* what the whitelist request can answer
GithubAnswers ==
    {RequestFailed, Body("# allowed\n\n"),
     Body("s1.com\n# mobile\n\n s2.com \n")}

Init == IdleHandler /\ IdleCodec /\ IdleEnvelope

\* the body of the except clause (lines 386-389, 427-430)
Caught(e) ==
    /\ exc' = e
    /\ response' = "Error processing subscription: " \o e
    /\ pc' = "done"

\* a request for /sub/{id_sub} arrives
RequestSub ==
    /\ pc = "idle"
    /\ endpoint' = "sub"
    /\ db_row' \in DbRows
    /\ upstream' \in UpstreamAnswers
    /\ pc' = "load_sni"
    /\ UNCHANGED <<github, sni_list, base_configs, multi_configs, bi, si,
                   exc, response>>
    /\ UNCHANGED <<codecVars, envelopeVars>>

\* a request for /subf/{id_sub} arrives
RequestSubf ==
    /\ pc = "idle"
    /\ endpoint' = "subf"
    /\ github' \in GithubAnswers
    /\ upstream' \in UpstreamAnswers
    /\ pc' = "load_sni"
    /\ UNCHANGED <<db_row, sni_list, base_configs, multi_configs, bi, si,
                   exc, response>>
    /\ UNCHANGED <<codecVars, envelopeVars>>

\* lines 357-358: sni_list = await load_sni_from_db(id_sub)
LoadSniFromDb ==
    /\ pc = "load_sni" /\ endpoint = "sub"
    /\ LET r == load_sni_from_db(db_row)
       IN  IF r.raised
           THEN Caught(r.error) /\ UNCHANGED sni_list
           ELSE sni_list' = r.value /\ pc' = "fetch"
                /\ UNCHANGED <<exc, response>>
    /\ UNCHANGED <<endpoint, db_row, github, upstream, base_configs,
                   multi_configs, bi, si>>
    /\ UNCHANGED <<codecVars, envelopeVars>>

\* lines 398-399: sni_list = load_sni_from_github(), then len(sni_list),
\* a TypeError when sni_list is None
LoadSniFromGithub ==
    /\ pc = "load_sni" /\ endpoint = "subf"
    /\ LET r == load_sni_from_github(github)
       IN  IF ~r.ok
           THEN Caught("object of type 'NoneType' has no len()")
                /\ UNCHANGED sni_list
           ELSE sni_list' = r.value /\ pc' = "fetch"
                /\ UNCHANGED <<exc, response>>
    /\ UNCHANGED <<endpoint, db_row, github, upstream, base_configs,
                   multi_configs, bi, si>>
    /\ UNCHANGED <<codecVars, envelopeVars>>

\* the configs that are no dict: config.get raises AttributeError on them
NonDicts(configs) == SelectSeq(configs, LAMBDA c : c.type # "dict")

\* lines 361-370 (402-411): base_configs = get_base_configs(id_sub), the
\* check that there are some, and the loop that logs each with config.get
FetchBaseConfigs ==
    /\ pc = "fetch"
    /\ base_configs' = get_base_configs(upstream)
    /\ IF base_configs' = <<>>
       THEN /\ response' =
                   "Error: No valid configurations found in base subscription"
            /\ pc' = "done"
            /\ UNCHANGED <<exc, multi_configs, bi, si>>
       ELSE IF NonDicts(base_configs') # <<>>
       THEN /\ Caught("'" \o NonDicts(base_configs')[1].type
                      \o "' object has no attribute 'get'")
            /\ UNCHANGED <<multi_configs, bi, si>>
       ELSE /\ multi_configs' = <<>>
            /\ bi' = 1
            /\ si' = 1
            /\ pc' = "generate"
            /\ UNCHANGED <<exc, response>>
    /\ UNCHANGED <<endpoint, db_row, github, upstream, sni_list>>
    /\ UNCHANGED <<codecVars, envelopeVars>>

\* one pass of the loop over sni_list for base_configs[bi] (lines 316-323,
\* 330-338): the link for sni_list[si] is appended; with no sni left the
\* outer loop moves on
FanOutStep ==
    /\ multi_configs' =
          IF si <= Len(sni_list)
          THEN Append(multi_configs,
                      json_to_vless_url(
                          FanOutConfig(base_configs[bi].items, sni_list[si])))
          ELSE multi_configs
    /\ IF si < Len(sni_list)
       THEN si' = si + 1 /\ bi' = bi
       ELSE si' = 1 /\ bi' = bi + 1
    /\ UNCHANGED <<pc, endpoint, db_row, github, upstream, sni_list,
                   base_configs, exc, response>>
    /\ UNCHANGED <<codecVars, envelopeVars>>

\* lines 314-323: the Reality branch of generate_multi_configs
GenerateReality ==
    /\ pc = "generate" /\ bi <= Len(base_configs)
    /\ ConfigTypeOf(base_configs[bi].items) = "reality"
    /\ FanOutStep

\* lines 325-338: the WebSocket branch of generate_multi_configs
GenerateWebsocket ==
    /\ pc = "generate" /\ bi <= Len(base_configs)
    /\ ConfigTypeOf(base_configs[bi].items) = "websocket"
    /\ FanOutStep

\* lines 340-344: any other config is added as it is
GenerateOther ==
    /\ pc = "generate" /\ bi <= Len(base_configs)
    /\ ConfigTypeOf(base_configs[bi].items) \notin {"reality", "websocket"}
    /\ multi_configs' =
          Append(multi_configs, json_to_vless_url(base_configs[bi].items))
    /\ bi' = bi + 1
    /\ UNCHANGED <<pc, endpoint, db_row, github, upstream, sni_list,
                   base_configs, si, exc, response>>
    /\ UNCHANGED <<codecVars, envelopeVars>>

\* lines 376-384 (417-425): the answer once generate_multi_configs returned
Respond ==
    /\ pc = "generate" /\ bi > Len(base_configs)
    /\ response' =
          IF multi_configs = <<>> THEN "Error: No configurations generated"
          ELSE EncodeEnvelope(multi_configs)
    /\ pc' = "done"
    /\ UNCHANGED <<endpoint, db_row, github, upstream, sni_list,
                   base_configs, multi_configs, bi, si, exc>>
    /\ UNCHANGED <<codecVars, envelopeVars>>

Next ==
    \/ RequestSub
    \/ RequestSubf
    \/ LoadSniFromDb
    \/ LoadSniFromGithub
    \/ FetchBaseConfigs
    \/ GenerateReality
    \/ GenerateWebsocket
    \/ GenerateOther
    \/ Respond

Spec == Init /\ [][Next]_vars

----------------------------------------------------------------------------
(* Properties *)

\* generate_multi_configs has returned (line 347)
Generated == pc = "generate" /\ bi > Len(base_configs)

\* the profile tag is one that fans out
FansOut(b) ==
    "_config_type" \in DOMAIN b /\ b["_config_type"] \in {"reality", "websocket"}

\* the number of links base link b is to yield
OutputCount(b) == IF FansOut(b) THEN Len(sni_list) ELSE 1

\* the number of links the base links before the i-th are to yield
RECURSIVE OutputsBefore(_)
OutputsBefore(i) ==
    IF i <= 1 THEN 0
    ELSE OutputsBefore(i - 1) + OutputCount(base_configs[i - 1].items)

\* base link b with only sni and label replaced for the candidate
SniCopy(b, candidate) ==
    [k \in DOMAIN b \cup {"sni", "ps"} |->
        IF k = "sni" THEN candidate
        ELSE IF k = "ps"
             THEN (IF "ps" \in DOMAIN b THEN b["ps"] ELSE "base-config")
                  \o " - sni:" \o candidate
        ELSE b[k]]

\* C1: generate_multi_configs returns, base link by base link in input
\* order, for a reality or websocket link one encoded copy per SNI candidate
\* in list order (sni and label replaced, every other field kept), and for
\* any other link the encoding of the link itself.
C1_ExpandSequence ==
    Generated =>
        /\ Len(multi_configs) = OutputsBefore(Len(base_configs) + 1)
        /\ \A i \in 1..Len(base_configs) :
              LET b == base_configs[i].items
              IN  IF FansOut(b)
                  THEN \A j \in 1..Len(sni_list) :
                          multi_configs[OutputsBefore(i) + j] =
                              json_to_vless_url(SniCopy(b, sni_list[j]))
                  ELSE multi_configs[OutputsBefore(i) + 1] =
                          json_to_vless_url(b)

\* a fan-out link followed by a pass-through link, expanded over two SNIs
C1_Witness ==
    /\ Generated
    /\ Len(sni_list) = 2
    /\ Len(base_configs) = 2
    /\ FansOut(base_configs[1].items)
    /\ ~FansOut(base_configs[2].items)
    /\ Len(multi_configs) = 3

\* the lines of the base subscription, when its body decodes
UpstreamLines ==
    IF upstream.status = "ok" THEN DecodeEnvelope(upstream.text).configs
    ELSE <<>>

\* the body of the base subscription decodes to lines
UpstreamDecodes == upstream.status = "ok" /\ DecodeEnvelope(upstream.text).ok

\* the SNI source of the endpoint gave a list
SniLoaded ==
    IF endpoint = "sub" THEN ~load_sni_from_db(db_row).raised
    ELSE load_sni_from_github(github).ok

\* the records of the lines that decode into a link record, URI or JSON
\* object; every other line is left out
RECURSIVE LinkRecords(_)
LinkRecords(ls) ==
    IF ls = <<>> THEN <<>>
    ELSE LET uri == parse_vless_url(ls[1])
             json == JsonLoads(ls[1])
         IN  (IF uri # None THEN <<uri>>
              ELSE IF json.ok /\ json.value.type = "dict" THEN <<json.value>>
              ELSE <<>>)
             \o LinkRecords(Tail(ls))

\* C2: a bad line never aborts the batch: when the envelope decodes and
\* holds a well-formed link line, the lines that are no link record are
\* dropped, no error is returned for the batch and the answer is the
\* envelope of what the well-formed lines generate.
C2_BadLineNeverAborts ==
    (pc = "done" /\ SniLoaded /\ UpstreamDecodes
        /\ LinkRecords(UpstreamLines) # <<>>) =>
        /\ exc = ""
        /\ base_configs = LinkRecords(UpstreamLines)
        /\ multi_configs # <<>> => response = EncodeEnvelope(multi_configs)

\* C3: round trip: a link record that is encoded and decoded again is the
\* same record in every field (label, fingerprint, encryption mode and
\* profile tag included).  An unset field and an empty field count as the
\* same.
C3_RoundTrip ==
    (cpc = "done" /\ config # None) =>
        /\ config2 # None
        /\ \A k \in DOMAIN config.items \cup DOMAIN config2.items :
              Get(config2.items, k, "") = Get(config.items, k, "")

\* the request ended with the subscription envelope
Succeeded ==
    /\ pc = "done" /\ exc = "" /\ multi_configs # <<>>
    /\ response = EncodeEnvelope(multi_configs)

\* C4: on every failure path of /sub and /subf the body is a message that
\* begins with "Error: ".
C4_ErrorPrefix ==
    (pc = "done" /\ ~Succeeded) => StartsWith(response, "Error: ")

\* the profile of a record by its network type, security type and public key
Classify(c) ==
    IF Get(c, "net", "tcp") = "ws" THEN "websocket"
    ELSE IF Get(c, "tls", "tls") = "reality" /\ Get(c, "pbk", "") # ""
         THEN "reality"
    ELSE "other"

\* C5: the profile tag is computed, never supplied by the wire format: for
\* every record get_base_configs produces, the tag that the fan-out and the
\* encoder act on is the classification of the record's own fields.
C5_ProfileComputed ==
    \A i \in 1..Len(base_configs) :
        base_configs[i].type = "dict" =>
            ConfigTypeOf(base_configs[i].items) =
                Classify(base_configs[i].items)

\* the request got as far as its base configs and found nothing to return
NothingToReturn ==
    \/ base_configs = <<>>
    \/ /\ sni_list = <<>>
       /\ \E i \in 1..Len(base_configs) :
             /\ base_configs[i].type = "dict"
             /\ FansOut(base_configs[i].items)
    \/ multi_configs = <<>>

\* C6: a request with no base config, or with no SNI candidate and a
\* fan-out link, or with no generated link, answers a plain-text message
\* and no subscription envelope.
C6_EmptyResult ==
    (pc = "done" /\ NothingToReturn) => StartsWith(response, "Error")

\* the lines are non-empty and hold no newline
NewlineFree(ls) ==
    \A i \in 1..Len(ls) : ls[i] # "" /\ Find(ls[i], "\n") = 0

\* the lines have no leading and no trailing whitespace
Trimmed(ls) == \A i \in 1..Len(ls) : Strip(ls[i]) = ls[i]

\* C7 as stated: decoding the envelope made from any list of non-empty,
\* newline-free strings returns the list.
C7_EnvelopeInverseAnyString ==
    (epc \in {"done", "failed"} /\ NewlineFree(lines)) =>
        (epc = "done" /\ decoded = lines)

\* C7, amended: decoding the envelope made from a list of non-empty,
\* newline-free strings without leading or trailing whitespace returns the
\* list, the same strings in the same order.
C7_EnvelopeInverseTrimmed ==
    (epc \in {"done", "failed"} /\ NewlineFree(lines) /\ Trimmed(lines)) =>
        (epc = "done" /\ decoded = lines)

\* two different trimmed strings, one with a space inside, read back
C7_Witness ==
    /\ epc = "done"
    /\ Len(lines) = 2
    /\ lines[1] # lines[2]
    /\ \E i \in 1..2 : Find(lines[i], " ") # 0
    /\ Trimmed(lines)
    /\ decoded = lines

\* the parts of a link text: up to the query, the query, the label
LinkHead(u) ==
    LET cut == {i \in 1..Len(u) : Char(u, i) \in {"?", "#"}}
    IN  IF cut = {} THEN u ELSE SubSeq(u, 1, Min(cut) - 1)

LinkLabel(u) == IF Find(u, "#") = 0 THEN "" ELSE From(u, Find(u, "#"))

LinkQuery(u) ==
    LET body == IF Find(u, "#") = 0 THEN u ELSE SubSeq(u, 1, Find(u, "#") - 1)
    IN  IF Find(body, "?") = 0 THEN "" ELSE From(body, Find(body, "?") + 1)

\* the name=value pieces of the query of a link text
LinkParameters(u) ==
    {Split(LinkQuery(u), "&")[i] : i \in 1..Len(Split(LinkQuery(u), "&"))}
    \ {""}

\* two link texts that differ at most in the order of their parameters
SameUpToParameterOrder(a, b) ==
    /\ LinkHead(a) = LinkHead(b)
    /\ LinkLabel(a) = LinkLabel(b)
    /\ LinkParameters(a) = LinkParameters(b)

\* C8: a base subscription of one link of profile other, with a non-empty
\* SNI list, yields exactly one link, the input up to the order of its
\* query parameters.
C8_PassThrough ==
    (/\ Generated
     /\ sni_list # <<>>
     /\ Len(UpstreamLines) = 1
     /\ StartsWith(UpstreamLines[1], "vless://")
     /\ Len(base_configs) = 1
     /\ Classify(base_configs[1].items) = "other") =>
        /\ Len(multi_configs) = 1
        /\ SameUpToParameterOrder(UpstreamLines[1], multi_configs[1])

\* C9: the profile tag parse_vless_url gives is websocket exactly when the
\* network type is ws, reality exactly when the network type is not ws, the
\* security type is reality and the public key is non-empty, and other in
\* every remaining case.
C9_Classification ==
    (cpc # "parse" /\ config # None) =>
        LET c == config.items
            tag == c["_config_type"]
            ws == c["net"] = "ws"
            reality == c["net"] # "ws" /\ c["tls"] = "reality" /\ c["pbk"] # ""
        IN  /\ tag \in {"websocket", "reality", "other"}
            /\ tag = "websocket" <=> ws
            /\ tag = "reality" <=> reality
            /\ tag = "other" <=> (~ws /\ ~reality)

\* a ws link with Reality security and a public key, tagged websocket
C9_Witness ==
    /\ cpc = "encode"
    /\ config # None
    /\ config.items["net"] = "ws"
    /\ config.items["tls"] = "reality"
    /\ config.items["pbk"] # ""
    /\ config.items["_config_type"] = "websocket"

\* C10: every generated link is a single line, so the answered envelope
\* decodes to exactly the generated links, one per line.
C10_SingleLine ==
    Succeeded =>
        /\ \A i \in 1..Len(multi_configs) : Find(multi_configs[i], "\n") = 0
        /\ DecodeEnvelope(response).configs = multi_configs

====
